---- MODULE Spec2Model ----
(***************************************************************************)
(* The deployment progress engine (DeploymentLogs), the prompt form        *)
(* (MagicCanvas) and the screen controller (Index) of Tone-AI-Devops.      *)
(*                                                                         *)
(* Time is kept as the delay left on every pending setTimeout; it advances *)
(* in units of the settle delay, which divides every delay of the code.    *)
(* One "run" (chain) is one execution of the activation effect: it owns    *)
(* the closure variable stepIndex and at most one pending timer.           *)
(***************************************************************************)
EXTENDS Integers, Sequences, FiniteSets, TLC

(* ------------------------------- bounds -------------------------------- *)
\* how many times the activation effect may run with isActive true
MaxActivations == 2
\* longest prompt typed into the form
MaxPromptLen == 2

\* the longest step catalog a run is checked with
MaxCatalogLen == 3

(* --------------------------- program constants ------------------------- *)
\* setTimeout(processStep, 500)
SettleDelay == 500
\* setTimeout(() => onComplete(...), 1000)
CompletionDelay == 1000
\* granularity of the clock: every delay of the code is a multiple of it
TickMs == SettleDelay

\* the step catalog (message and details rendered in ASCII; the icon is
\* presentation only)
deploymentSteps ==
  << [message |-> "analysing requirements", details |-> "Gemini API",           duration |-> 2000],
     [message |-> "blueprint generated",    details |-> "Kubernetes Istio Vault", duration |-> 3000],
     [message |-> "committing to git",      details |-> "config repo",          duration |-> 2000],
     [message |-> "argo cd sync started",   details |-> "gitops trigger",       duration |-> 4000],
     [message |-> "deploying to cluster",   details |-> "pod service ingress",  duration |-> 3000],
     [message |-> "applying istio policy",  details |-> "mtls authz policy",    duration |-> 2500],
     [message |-> "domain and certificate", details |-> "lets encrypt gateway", duration |-> 3000],
     [message |-> "deployment complete",    details |-> "all services healthy", duration |-> 1000] >>

\* the argument of onComplete
CompletionPayload ==
  [ liveUrl    |-> "https://chat.my-app.com",
    sourceRepo |-> "https://github.com/tone-platform/my-chat-app",
    configRepo |-> "https://github.com/tone-platform/my-chat-app-config",
    services   |-> <<"Frontend", "Backend", "Redis", "Database">>,
    status     |-> "deployed" ]

\* the nominal durations a step of a catalog is given: none, shorter than a
\* tick, a tick and longer than a tick
Durations == {0, 10, 50, 100, 1000}

\* the catalog whose k-th step lasts ds[k]
CatalogOf(ds) ==
  [ k \in 1..Len(ds) |->
      [ message  |-> "message " \o ToString(k - 1),
        details  |-> "details " \o ToString(k - 1),
        duration |-> ds[k] ] ]

\* the catalogs deploymentSteps may hold: the one the component ships and
\* every catalog of up to MaxCatalogLen steps over Durations
Catalogs ==
  {deploymentSteps} \cup
    { CatalogOf(ds) : ds \in UNION { [1..n -> Durations] : n \in 1..MaxCatalogLen } }

\* the characters a prompt is made of: one whitespace, one other
Chars == {" ", "a"}

\* the prompts the form can hold: every string up to MaxPromptLen
Prompts == UNION { [1..n -> Chars] : n \in 0..MaxPromptLen }

\* deploymentResult is null or a DeploymentResult: the empty sequence or a
\* sequence holding the result
null == << >>

\* a non-null DeploymentResult
Some(result) == << result >>

VARIABLES
  catalog,           \* DeploymentLogs: the step catalog the component is built with
  appState,          \* Index: "canvas" | "deploying" | "completed"
  currentPrompt,     \* Index: the prompt handed to the engine
  deploymentResult,  \* Index: null or the payload of onComplete
  prompt,            \* MagicCanvas: the text of the form
  mounted,           \* whether a DeploymentLogs instance is mounted
  isActive,          \* DeploymentLogs: the isActive prop
  logs,              \* DeploymentLogs: the LogStore
  currentStep,       \* DeploymentLogs: the displayed step index
  stepIndex,         \* run -> the closure variable stepIndex of that run
  timers,            \* the pending setTimeout callbacks
  calls,             \* the onComplete invocations so far, in order
  abandoned,         \* the runs that were still in progress at a later activation
  trace              \* run -> its prompt and the engine states it went through

vars == << catalog, appState, currentPrompt, deploymentResult, prompt, mounted,
           isActive, logs, currentStep, stepIndex, timers, calls, abandoned, trace >>

indexVars == << appState, currentPrompt, deploymentResult, prompt >>

\* deploymentSteps.length
N == Len(catalog)

(* ------------------------------ LogStore ------------------------------- *)
\* an id that leaves the index out: `step`
StepIdFixed(i) == "step"

\* `step-${stepIndex}`
StepId(i) == "step-" \o ToString(i)

\* a logEntry whose details echo the prompt of the run
NewEntryEcho(i, r) ==
  [ id      |-> StepId(i),
    message |-> catalog[i + 1].message,
    details |-> currentPrompt,
    status  |-> "running",
    run     |-> r ]

\* the logEntry object built by run r for step i (0-based); run stands for
\* the identity of the object, which the code stamps with new Date()
NewEntry(i, r) ==
  [ id      |-> StepId(i),
    message |-> catalog[i + 1].message,
    details |-> catalog[i + 1].details,
    status  |-> "running",
    run     |-> r ]

\* setLogs that keeps what the store holds: the reset is forgotten
ResetLogsKeep(prev) == prev

\* setLogs([])
ResetLogs(prev) == << >>

\* an append at the front, newest entry first: setLogs(prev => [logEntry, ...prev])
AppendLogPrepend(prev, entry) == << entry >> \o prev

\* a store that keeps only the newest entry: setLogs([logEntry])
AppendLogReplace(prev, entry) == << entry >>

\* setLogs(prev => [...prev, logEntry])
AppendLog(prev, entry) == Append(prev, entry)

\* a filter in place of the map: the finished entry is dropped from the
\* store, prev.filter(log => log.id !== id)
MarkCompletedFilter(prev, id) == SelectSeq(prev, LAMBDA log : log.id # id)

\* a mark that inserts what it does not find: an id missing from the store
\* is added as a completed entry
MarkCompletedUpsert(prev, id) ==
  IF \E k \in 1..Len(prev) : prev[k].id = id
    THEN [ k \in 1..Len(prev) |->
             IF prev[k].id = id THEN [prev[k] EXCEPT !.status = "completed"] ELSE prev[k] ]
    ELSE Append(prev, [id |-> id, message |-> "", details |-> "", status |-> "completed", run |-> 0])

\* a map that also rewrites the details of the entry it marks
MarkCompletedStamped(prev, id) ==
  [ k \in 1..Len(prev) |->
      IF prev[k].id = id
        THEN [prev[k] EXCEPT !.status = "completed", !.details = "done"]
        ELSE prev[k] ]

\* a map with the comparison inverted: log.id !== id
MarkCompletedOthers(prev, id) ==
  [ k \in 1..Len(prev) |->
      IF prev[k].id # id THEN [prev[k] EXCEPT !.status = "completed"] ELSE prev[k] ]

\* a map that returns every entry as it is
MarkCompletedNone(prev, id) == prev

\* setLogs(prev => prev.map(log => log.id === id ? {...log, status: "completed"} : log))
MarkCompleted(prev, id) ==
  [ k \in 1..Len(prev) |->
      IF prev[k].id = id THEN [prev[k] EXCEPT !.status = "completed"] ELSE prev[k] ]

(* ------------------------------- timers -------------------------------- *)
\* a setTimeout whose delay is taken in whole seconds, rounded up
TimerWholeSeconds(r, kind, delay, id) ==
  [run |-> r, kind |-> kind, left |-> ((delay + 999) \div 1000) * 1000, id |-> id]

\* a pending setTimeout of run r: the step-finished callback closes over
\* logEntry (its id), the others over nothing but the run's variables
Timer(r, kind, delay, id) == [run |-> r, kind |-> kind, left |-> delay, id |-> id]

\* the run's activations so far
Runs == DOMAIN stepIndex

\* processStep() that tests the end of the catalog after the append, so
\* the last step also schedules the completion callback
processStepEager(l, cs, tm, i, r) ==
  IF i >= N
    THEN [ logs |-> l, currentStep |-> cs,
           timers |-> tm \cup {Timer(r, "complete", CompletionDelay, "")} ]
    ELSE [ logs |-> AppendLog(l, NewEntry(i, r)), currentStep |-> i,
           timers |-> tm \cup {Timer(r, "step", catalog[i + 1].duration, StepId(i))}
                         \cup (IF i + 1 >= N
                                 THEN {Timer(r, "complete", CompletionDelay, "")} ELSE {}) ]

\* processStep() that returns at the end of the catalog without scheduling
\* the completion callback
processStepNoCallback(l, cs, tm, i, r) ==
  IF i >= N
    THEN [ logs |-> l, currentStep |-> cs, timers |-> tm ]
    ELSE [ logs |-> AppendLog(l, NewEntry(i, r)), currentStep |-> i,
           timers |-> tm \cup {Timer(r, "step", catalog[i + 1].duration, StepId(i))} ]

\* processStep() with the end test off by one: stepIndex >= length - 1
processStepOffByOne(l, cs, tm, i, r) ==
  IF i >= N - 1
    THEN [ logs |-> l, currentStep |-> cs,
           timers |-> tm \cup {Timer(r, "complete", CompletionDelay, "")} ]
    ELSE [ logs |-> AppendLog(l, NewEntry(i, r)), currentStep |-> i,
           timers |-> tm \cup {Timer(r, "step", catalog[i + 1].duration, StepId(i))} ]

\* processStep() that also publishes the index at the end of the catalog:
\* setCurrentStep(stepIndex) before the end test
processStepShowEnd(l, cs, tm, i, r) ==
  IF i >= N
    THEN [ logs |-> l, currentStep |-> i,
           timers |-> tm \cup {Timer(r, "complete", CompletionDelay, "")} ]
    ELSE [ logs |-> AppendLog(l, NewEntry(i, r)), currentStep |-> i,
           timers |-> tm \cup {Timer(r, "step", catalog[i + 1].duration, StepId(i))} ]

\* processStep() that marks the entry in the same breath as it appends it,
\* without waiting for the step's timer
processStepMarksOnAppend(l, cs, tm, i, r) ==
  IF i >= N
    THEN [ logs |-> l, currentStep |-> cs,
           timers |-> tm \cup {Timer(r, "complete", CompletionDelay, "")} ]
    ELSE [ logs |-> MarkCompleted(AppendLog(l, NewEntry(i, r)), StepId(i)), currentStep |-> i,
           timers |-> tm \cup {Timer(r, "step", catalog[i + 1].duration, StepId(i))} ]

\* processStep() that publishes the index counted from one:
\* setCurrentStep(stepIndex + 1)
processStepOneBased(l, cs, tm, i, r) ==
  IF i >= N
    THEN [ logs |-> l, currentStep |-> cs,
           timers |-> tm \cup {Timer(r, "complete", CompletionDelay, "")} ]
    ELSE [ logs |-> AppendLog(l, NewEntry(i, r)), currentStep |-> i + 1,
           timers |-> tm \cup {Timer(r, "step", catalog[i + 1].duration, StepId(i))} ]

\* processStep() of run r with stepIndex = i, applied to the engine state
\* (l, cs, tm); yields the new logs, currentStep and timers
processStep(l, cs, tm, i, r) ==
  IF i >= N
    THEN [ logs |-> l, currentStep |-> cs,
           timers |-> tm \cup {Timer(r, "complete", CompletionDelay, "")} ]
    ELSE [ logs |-> AppendLog(l, NewEntry(i, r)), currentStep |-> i,
           timers |-> tm \cup {Timer(r, "step", catalog[i + 1].duration, StepId(i))} ]

\* the runs whose timer chain has not reached the end of the catalog
InProgress == { t.run : t \in { u \in timers : stepIndex[u.run] < N } }

\* an activation effect with a cleanup that clears the timers pending from
\* earlier runs
RunEffectCancel ==
  LET r   == Cardinality(Runs) + 1
      res == processStep(ResetLogs(logs), 0, {}, 0, r)
  IN  /\ logs' = res.logs
      /\ currentStep' = res.currentStep
      /\ timers' = res.timers
      /\ stepIndex' = stepIndex @@ (r :> 0)
      /\ abandoned' = abandoned \cup InProgress

\* the body of the activation effect once isActive is true: reset, a new
\* closure with stepIndex = 0, processStep(); no cleanup is returned, so
\* pending timers are left alone
RunEffect ==
  LET r   == Cardinality(Runs) + 1
      res == processStep(ResetLogs(logs), 0, timers, 0, r)
  IN  /\ logs' = res.logs
      /\ currentStep' = res.currentStep
      /\ timers' = res.timers
      /\ stepIndex' = stepIndex @@ (r :> 0)
      /\ abandoned' = abandoned \cup InProgress

\* timers fire in deadline order; two timers scheduled for the same instant
\* by the same code path fire in the order they were scheduled
MayFire(t) ==
  /\ t \in timers
  /\ t.left = 0
  /\ \A u \in timers :
       (u.left = 0 /\ u.kind = t.kind /\ stepIndex[u.run] = stepIndex[t.run])
         => u.run >= t.run

\* a step-finished callback that calls back without a pause:
\* setTimeout(processStep) with no delay
StepFinishedNoPause(t) ==
  /\ MayFire(t)
  /\ t.kind = "step"
  /\ logs' = IF mounted THEN MarkCompleted(logs, t.id) ELSE logs
  /\ stepIndex' = [stepIndex EXCEPT ![t.run] = @ + 1]
  /\ timers' = (timers \ {t}) \cup {Timer(t.run, "settle", 0, "")}
  /\ UNCHANGED << currentStep, calls, abandoned, mounted, isActive, indexVars >>

\* a step-finished callback that skips the pause after the last step and
\* calls processStep() itself
StepFinishedDirect(t) ==
  /\ MayFire(t)
  /\ t.kind = "step"
  /\ stepIndex' = [stepIndex EXCEPT ![t.run] = @ + 1]
  /\ LET marked == IF mounted THEN MarkCompleted(logs, t.id) ELSE logs
     IN  IF stepIndex[t.run] + 1 >= N
           THEN LET res == processStep(marked, currentStep, timers \ {t}, stepIndex[t.run] + 1, t.run)
                IN  logs' = res.logs /\ timers' = res.timers
           ELSE /\ logs' = marked
                /\ timers' = (timers \ {t}) \cup {Timer(t.run, "settle", SettleDelay, "")}
  /\ UNCHANGED << currentStep, calls, abandoned, mounted, isActive, indexVars >>

\* the step-finished callback: mark the entry, stepIndex++, schedule settle
StepFinished(t) ==
  /\ MayFire(t)
  /\ t.kind = "step"
  /\ logs' = IF mounted THEN MarkCompleted(logs, t.id) ELSE logs
  /\ stepIndex' = [stepIndex EXCEPT ![t.run] = @ + 1]
  /\ timers' = (timers \ {t}) \cup {Timer(t.run, "settle", SettleDelay, "")}
  /\ UNCHANGED << currentStep, calls, abandoned, mounted, isActive, indexVars >>

\* the settle callback: processStep()
Settled(t) ==
  /\ MayFire(t)
  /\ t.kind = "settle"
  /\ LET res == processStep(logs, currentStep, timers \ {t}, stepIndex[t.run], t.run)
     IN  /\ logs' = IF mounted THEN res.logs ELSE logs
         /\ currentStep' = IF mounted THEN res.currentStep ELSE currentStep
         /\ timers' = res.timers
  /\ UNCHANGED << stepIndex, calls, abandoned, mounted, isActive, indexVars >>

\* time passes: every pending delay shrinks by one tick, or by less when a
\* deadline comes sooner; a due timer fires before the clock moves on
Tick ==
  /\ timers # {}
  /\ \A t \in timers : t.left > 0
  /\ LET least == CHOOSE d \in { t.left : t \in timers } :
                      \A t \in timers : d <= t.left
         dt    == IF least < TickMs THEN least ELSE TickMs
     IN  timers' = { [t EXCEPT !.left = @ - dt] : t \in timers }
  /\ UNCHANGED << logs, currentStep, stepIndex, calls, abandoned, mounted, isActive, indexVars >>

(* ------------------------------ MagicCanvas ---------------------------- *)
RECURSIVE TrimStart(_)
\* the prompt without its leading whitespace
TrimStart(s) ==
  IF s = << >> THEN s
  ELSE IF Head(s) = " " THEN TrimStart(Tail(s)) ELSE s

RECURSIVE TrimEnd(_)
\* the prompt without its trailing whitespace
TrimEnd(s) ==
  IF s = << >> THEN s
  ELSE IF s[Len(s)] = " " THEN TrimEnd(SubSeq(s, 1, Len(s) - 1)) ELSE s

\* prompt.trim()
Trim(s) == TrimEnd(TrimStart(s))

\* a gate that tests the prompt as typed: prompt && !isDeploying
CanDeployUntrimmed(p, isDeploying) == p # << >> /\ ~isDeploying

\* the condition of MagicCanvas.handleDeploy: prompt.trim() && !isDeploying
\* (a string is truthy when it is not empty)
CanDeploy(p, isDeploying) == Trim(p) # << >> /\ ~isDeploying

\* onChange / example buttons: setPrompt
setPrompt(p) ==
  /\ appState = "canvas"
  /\ p \in Prompts
  /\ p # prompt
  /\ prompt' = p
  /\ UNCHANGED << appState, currentPrompt, deploymentResult, mounted, isActive,
                  logs, currentStep, stepIndex, timers, calls, abandoned >>

(* --------------------------------- Index ------------------------------- *)
\* a handleDeploy that stores the prompt trimmed
handleDeployTrimmed(p) ==
  /\ currentPrompt' = Trim(p)
  /\ appState' = "deploying"
  /\ mounted' = TRUE
  /\ isActive' = TRUE
  /\ LET r   == Cardinality(Runs) + 1
         res == processStep(ResetLogs(<< >>), 0, timers, 0, r)
     IN  /\ logs' = res.logs
         /\ currentStep' = res.currentStep
         /\ timers' = res.timers
         /\ stepIndex' = stepIndex @@ (r :> 0)
         /\ abandoned' = abandoned \cup InProgress

\* Index.handleDeploy(prompt), then the mount of DeploymentLogs with
\* isActive = true and fresh state, whose effect starts the run
handleDeploy(p) ==
  /\ currentPrompt' = p
  /\ appState' = "deploying"
  /\ mounted' = TRUE
  /\ isActive' = TRUE
  /\ LET r   == Cardinality(Runs) + 1
         res == processStep(ResetLogs(<< >>), 0, timers, 0, r)
     IN  /\ logs' = res.logs
         /\ currentStep' = res.currentStep
         /\ timers' = res.timers
         /\ stepIndex' = stepIndex @@ (r :> 0)
         /\ abandoned' = abandoned \cup InProgress

\* a deploy button that stays on screen while a run is in progress
DeployWhileDeploying ==
  /\ appState \in {"canvas", "deploying"}
  /\ Cardinality(Runs) < MaxActivations
  /\ CanDeploy(prompt, FALSE)
  /\ handleDeploy(prompt)
  /\ UNCHANGED << deploymentResult, prompt, calls >>

\* MagicCanvas.handleDeploy: the click on the deploy button (isDeploying is
\* always false in Index)
Deploy ==
  /\ appState = "canvas"
  /\ Cardinality(Runs) < MaxActivations
  /\ CanDeploy(prompt, FALSE)
  /\ handleDeploy(prompt)
  /\ UNCHANGED << deploymentResult, prompt, calls >>

\* a completion handler that switches the screen and forgets the result
handleDeploymentCompleteNoResult(result) ==
  /\ deploymentResult' = deploymentResult
  /\ appState' = "completed"
  /\ mounted' = FALSE
  /\ UNCHANGED << currentPrompt >>

\* a completion handler that goes straight back to the canvas
handleDeploymentCompleteToCanvas(result) ==
  /\ deploymentResult' = Some(result)
  /\ appState' = "canvas"
  /\ mounted' = FALSE
  /\ UNCHANGED << currentPrompt >>

\* Index.handleDeploymentComplete(result); DeploymentLogs is unmounted
handleDeploymentComplete(result) ==
  /\ deploymentResult' = Some(result)
  /\ appState' = "completed"
  /\ mounted' = FALSE
  /\ UNCHANGED << currentPrompt >>

\* a completion callback whose live URL is derived from the prompt
CompletedFromPrompt(t) ==
  /\ MayFire(t)
  /\ t.kind = "complete"
  /\ appState = "deploying"
  /\ timers' = timers \ {t}
  /\ LET result == [CompletionPayload EXCEPT
                     !.liveUrl = IF Len(currentPrompt) = 1 THEN @ ELSE "https://app.my-app.com"]
     IN  /\ calls' = Append(calls, [run |-> t.run, payload |-> result])
         /\ handleDeploymentComplete(result)
  /\ UNCHANGED << prompt, isActive, logs, currentStep, stepIndex, abandoned >>

\* the completion callback of a run started by Index
Completed(t) ==
  /\ MayFire(t)
  /\ t.kind = "complete"
  /\ appState = "deploying"
  /\ timers' = timers \ {t}
  /\ calls' = Append(calls, [run |-> t.run, payload |-> CompletionPayload])
  /\ handleDeploymentComplete(CompletionPayload)
  /\ UNCHANGED << prompt, isActive, logs, currentStep, stepIndex, abandoned >>

\* a start-new that goes back to the canvas and keeps the prompt of the run
handleStartNewKeepsPrompt ==
  /\ appState = "completed"
  /\ deploymentResult # null
  /\ appState' = "canvas"
  /\ currentPrompt' = currentPrompt
  /\ deploymentResult' = null
  /\ prompt' = << >>
  /\ UNCHANGED << mounted, isActive, logs, currentStep, stepIndex, timers, calls, abandoned >>

\* Index.handleStartNew; MagicCanvas is mounted again with an empty form
handleStartNew ==
  /\ appState = "completed"
  /\ deploymentResult # null
  /\ appState' = "canvas"
  /\ currentPrompt' = << >>
  /\ deploymentResult' = null
  /\ prompt' = << >>
  /\ UNCHANGED << mounted, isActive, logs, currentStep, stepIndex, timers, calls, abandoned >>

(* ------------------------- the composed application -------------------- *)
Init ==
  /\ catalog = deploymentSteps
  /\ appState = "canvas"
  /\ currentPrompt = << >>
  /\ deploymentResult = null
  /\ prompt = << >>
  /\ mounted = FALSE
  /\ isActive = FALSE
  /\ logs = << >>
  /\ currentStep = 0
  /\ stepIndex = << >>
  /\ timers = {}
  /\ calls = << >>
  /\ abandoned = {}
  /\ trace = << >>

Next ==
  \/ \E p \in Prompts : setPrompt(p) /\ UNCHANGED << trace, catalog >>
  \/ Deploy /\ UNCHANGED << trace, catalog >>
  \/ \E t \in timers : StepFinished(t) /\ UNCHANGED << trace, catalog >>
  \/ \E t \in timers : Settled(t) /\ UNCHANGED << trace, catalog >>
  \/ \E t \in timers : Completed(t) /\ UNCHANGED << trace, catalog >>
  \/ Tick /\ UNCHANGED << trace, catalog >>
  \/ handleStartNew /\ UNCHANGED << trace, catalog >>

Spec == Init /\ [][Next]_vars

(* ----------------- the engine under an arbitrary parent ---------------- *)
\* the parent re-renders DeploymentLogs with isActive true and a changed
\* dependency (isActive was false, or onComplete is a new function): the
\* effect runs again
Activate ==
  /\ mounted
  /\ Cardinality(Runs) < MaxActivations
  /\ isActive' = TRUE
  /\ RunEffect
  /\ UNCHANGED << calls, mounted, indexVars >>

\* an effect that resets before it tests isActive
DeactivateResets ==
  /\ mounted
  /\ isActive
  /\ isActive' = FALSE
  /\ logs' = ResetLogs(logs)
  /\ currentStep' = 0
  /\ UNCHANGED << stepIndex, timers, calls, abandoned, mounted, indexVars >>

\* the parent sets isActive to false: the effect runs and returns at once
Deactivate ==
  /\ mounted
  /\ isActive
  /\ isActive' = FALSE
  /\ UNCHANGED << logs, currentStep, stepIndex, timers, calls, abandoned, mounted, indexVars >>

\* a completion callback that checks it belongs to the newest run and
\* keeps quiet otherwise
OnCompleteLatestOnly(t) ==
  /\ MayFire(t)
  /\ t.kind = "complete"
  /\ timers' = timers \ {t}
  /\ calls' = IF t.run = Cardinality(Runs)
                THEN Append(calls, [run |-> t.run, payload |-> CompletionPayload])
                ELSE calls
  /\ UNCHANGED << logs, currentStep, stepIndex, abandoned, mounted, isActive, indexVars >>

\* a completion callback registered with setInterval: it stays scheduled
OnCompleteRepeating(t) ==
  /\ MayFire(t)
  /\ t.kind = "complete"
  /\ timers' = (timers \ {t}) \cup {Timer(t.run, "complete", CompletionDelay, "")}
  /\ calls' = Append(calls, [run |-> t.run, payload |-> CompletionPayload])
  /\ UNCHANGED << logs, currentStep, stepIndex, abandoned, mounted, isActive, indexVars >>

\* the completion callback of a run: onComplete(payload) of the parent
OnComplete(t) ==
  /\ MayFire(t)
  /\ t.kind = "complete"
  /\ timers' = timers \ {t}
  /\ calls' = Append(calls, [run |-> t.run, payload |-> CompletionPayload])
  /\ UNCHANGED << logs, currentStep, stepIndex, abandoned, mounted, isActive, indexVars >>

EngineInit ==
  /\ catalog = deploymentSteps
  /\ appState = "canvas"
  /\ currentPrompt = << >>
  /\ deploymentResult = null
  /\ prompt = << >>
  /\ mounted = TRUE
  /\ isActive = FALSE
  /\ logs = << >>
  /\ currentStep = 0
  /\ stepIndex = << >>
  /\ timers = {}
  /\ calls = << >>
  /\ abandoned = {}
  /\ trace = << >>

EngineNext ==
  \/ Activate /\ UNCHANGED << trace, catalog >>
  \/ Deactivate /\ UNCHANGED << trace, catalog >>
  \/ \E t \in timers : StepFinished(t) /\ UNCHANGED << trace, catalog >>
  \/ \E t \in timers : Settled(t) /\ UNCHANGED << trace, catalog >>
  \/ \E t \in timers : OnComplete(t) /\ UNCHANGED << trace, catalog >>
  \/ Tick /\ UNCHANGED << trace, catalog >>

SpecEngine == EngineInit /\ [][EngineNext]_vars

(* ------------- two runs of the engine with their own prompts ----------- *)
\* the newest run
Latest == Cardinality(Runs)

\* an entry as the view shows it: the fields of the LogEntry
Shown(entry) ==
  [ id |-> entry.id, message |-> entry.message, details |-> entry.details,
    status |-> entry.status ]

\* what run r lets one observe of the engine: the store, the displayed
\* index, the closure index, the delay left on its timer and the payloads
\* it handed to onComplete
Observed(r) ==
  [ logs        |-> [ k \in 1..Len(logs) |-> Shown(logs[k]) ],
    currentStep |-> currentStep,
    stepIndex   |-> stepIndex[r],
    timers      |-> { [kind |-> t.kind, left |-> t.left, id |-> t.id] : t \in { u \in timers : u.run = r } },
    payloads    |-> LET mine == SelectSeq(calls, LAMBDA c : c.run = r)
                    IN  [ k \in 1..Len(mine) |-> mine[k].payload ] ]

\* the parent activates the idle engine with the prompt p
ActivateWith(p) ==
  /\ mounted
  /\ timers = {}
  /\ Cardinality(Runs) < 2
  /\ currentPrompt' = p
  /\ isActive' = TRUE
  /\ RunEffect
  /\ UNCHANGED << calls, mounted, appState, deploymentResult, prompt >>

\* the newest run's trace grows by the state this step leads to
Record ==
  trace' = [ r \in Runs' |->
               IF r # Latest' THEN trace[r]
               ELSE IF r \in Runs
                 THEN [trace[r] EXCEPT !.states = Append(@, Observed(r)')]
                 ELSE [prompt |-> currentPrompt', states |-> << Observed(r)' >>] ]

PairNext ==
  \/ \E p \in Prompts : ActivateWith(p) /\ Record /\ UNCHANGED catalog
  \/ \E t \in timers : StepFinished(t) /\ Record /\ UNCHANGED catalog
  \/ \E t \in timers : Settled(t) /\ Record /\ UNCHANGED catalog
  \/ \E t \in timers : OnComplete(t) /\ Record /\ UNCHANGED catalog
  \/ Tick /\ Record /\ UNCHANGED catalog

SpecPair == EngineInit /\ [][PairNext]_vars

(* ---------------- one run of the engine over any catalog --------------- *)
EngineInitWith(steps) ==
  /\ catalog = steps
  /\ appState = "canvas"
  /\ currentPrompt = << >>
  /\ deploymentResult = null
  /\ prompt = << >>
  /\ mounted = TRUE
  /\ isActive = FALSE
  /\ logs = << >>
  /\ currentStep = 0
  /\ stepIndex = << >>
  /\ timers = {}
  /\ calls = << >>
  /\ abandoned = {}
  /\ trace = << >>

\* the component is built with one of the catalogs
CatalogInit == \E steps \in Catalogs : EngineInitWith(steps)

\* the parent activates the engine once
ActivateOnce == Runs = {} /\ Activate

CatalogNext ==
  \/ ActivateOnce /\ UNCHANGED << trace, catalog >>
  \/ \E t \in timers : StepFinished(t) /\ UNCHANGED << trace, catalog >>
  \/ \E t \in timers : Settled(t) /\ UNCHANGED << trace, catalog >>
  \/ \E t \in timers : OnComplete(t) /\ UNCHANGED << trace, catalog >>
  \/ Tick /\ UNCHANGED << trace, catalog >>

SpecCatalog == CatalogInit /\ [][CatalogNext]_vars

(* ------------- one run whose view is turned off or torn down ----------- *)
\* an unmount with a cleanup that clears the pending timers
UnmountCleanup ==
  /\ mounted
  /\ mounted' = FALSE
  /\ timers' = {}
  /\ UNCHANGED << logs, currentStep, stepIndex, calls, abandoned, isActive, indexVars >>

\* the parent stops rendering DeploymentLogs: the effect has returned no
\* cleanup, so the timers stay scheduled; state updates of the unmounted
\* component are dropped from then on
Unmount ==
  /\ mounted
  /\ mounted' = FALSE
  /\ UNCHANGED << logs, currentStep, stepIndex, timers, calls, abandoned, isActive, indexVars >>

TeardownNext ==
  \/ ActivateOnce /\ UNCHANGED << trace, catalog >>
  \/ Deactivate /\ UNCHANGED << trace, catalog >>
  \/ Unmount /\ UNCHANGED << trace, catalog >>
  \/ \E t \in timers : StepFinished(t) /\ UNCHANGED << trace, catalog >>
  \/ \E t \in timers : Settled(t) /\ UNCHANGED << trace, catalog >>
  \/ \E t \in timers : OnComplete(t) /\ UNCHANGED << trace, catalog >>
  \/ Tick /\ UNCHANGED << trace, catalog >>

SpecTeardown == EngineInit /\ [][TeardownNext]_vars

(* ------------------- one run with its timers measured ------------------ *)
\* what the host has seen of the run's timers after this step: how many
\* fired, the sum of the delays they were scheduled with and the time that
\* has passed; a run has one timer at a time
Measure ==
  IF timers = {}
    THEN trace' = [ fired     |-> 0,
                    scheduled |-> (CHOOSE u \in timers' : TRUE).left,
                    elapsed   |-> 0 ]
    ELSE LET t == CHOOSE t \in timers : TRUE
         IN  IF t.left > 0
               THEN trace' = [trace EXCEPT
                                !.elapsed = @ + t.left - (CHOOSE u \in timers' : TRUE).left]
               ELSE trace' = [trace EXCEPT
                                !.fired = @ + 1,
                                !.scheduled = @ + (IF timers' = {} THEN 0
                                                   ELSE (CHOOSE u \in timers' : TRUE).left)]

TimingNext ==
  \/ ActivateOnce /\ Measure /\ UNCHANGED catalog
  \/ \E t \in timers : StepFinished(t) /\ Measure /\ UNCHANGED catalog
  \/ \E t \in timers : Settled(t) /\ Measure /\ UNCHANGED catalog
  \/ \E t \in timers : OnComplete(t) /\ Measure /\ UNCHANGED catalog
  \/ Tick /\ Measure /\ UNCHANGED catalog

SpecTiming == CatalogInit /\ [][TimingNext]_vars

(* ------------------------------ fairness ------------------------------- *)
\* the host fires every scheduled timer: the clock keeps moving while a
\* timer is pending and a due callback is run
FairSpec ==
  /\ Spec
  /\ WF_vars(Tick /\ UNCHANGED << trace, catalog >>)
  /\ WF_vars(\E t \in timers : StepFinished(t) /\ UNCHANGED << trace, catalog >>)
  /\ WF_vars(\E t \in timers : Settled(t) /\ UNCHANGED << trace, catalog >>)
  /\ WF_vars(\E t \in timers : Completed(t) /\ UNCHANGED << trace, catalog >>)

\* the same host for the run over any catalog
FairSpecCatalog ==
  /\ SpecCatalog
  /\ WF_vars(Tick /\ UNCHANGED << trace, catalog >>)
  /\ WF_vars(\E t \in timers : StepFinished(t) /\ UNCHANGED << trace, catalog >>)
  /\ WF_vars(\E t \in timers : Settled(t) /\ UNCHANGED << trace, catalog >>)
  /\ WF_vars(\E t \in timers : OnComplete(t) /\ UNCHANGED << trace, catalog >>)

\* the same host for the run whose view is turned off or torn down
FairSpecTeardown ==
  /\ SpecTeardown
  /\ WF_vars(Tick /\ UNCHANGED << trace, catalog >>)
  /\ WF_vars(\E t \in timers : StepFinished(t) /\ UNCHANGED << trace, catalog >>)
  /\ WF_vars(\E t \in timers : Settled(t) /\ UNCHANGED << trace, catalog >>)
  /\ WF_vars(\E t \in timers : OnComplete(t) /\ UNCHANGED << trace, catalog >>)

(* ------------------------- auxiliary definitions ------------------------ *)
\* every entry of the store l is completed
AllCompleted(l) == \A k \in 1..Len(l) : l[k].status = "completed"

\* the store l holds one entry per catalog step, in catalog order
InCatalogOrder(l) == \A k \in 1..Len(l) : l[k].id = StepId(k - 1)

\* the positions of calls at which run r invoked onComplete
CallsOf(r) == { k \in 1..Len(calls) : calls[k].run = r }

\* the pending timers of run r
TimersOf(r) == { t \in timers : t.run = r }

\* the store l holds an entry of run r for step i
HasEntry(l, r, i) == \E j \in 1..Len(l) : l[j].run = r /\ l[j].id = StepId(i)

\* the store l holds a completed entry of run r for step i
HasCompleted(l, r, i) ==
  \E j \in 1..Len(l) : l[j].run = r /\ l[j].id = StepId(i) /\ l[j].status = "completed"

\* onComplete is invoked in this step
Invoked == calls' # calls

C5_Liveness ==
  /\ \A r \in 1..MaxActivations :
       (r \in Runs /\ CallsOf(r) = {}) ~> (CallsOf(r) # {} /\ \A i \in 0..(N - 1) : HasCompleted(logs, r, i))
  /\ (appState = "deploying") ~> (appState = "completed")

\* C5 witness: a run was activated, ran through the catalog and invoked
\* onComplete
C5_Witness ==
  /\ 1 \in Runs
  /\ CallsOf(1) # {}
  /\ \A i \in 0..(N - 1) : HasCompleted(logs, 1, i)
  /\ deploymentResult = Some(CompletionPayload)

\* this step is an activation: a new run starts
Activated == Cardinality(Runs') > Cardinality(Runs)

\* an entry of an older run sits behind an entry of a newer run: it was
\* appended by a callback of the older run after the store was reset
StaleAppend ==
  \E j, k \in 1..Len(logs) : j < k /\ logs[j].run > logs[k].run

\* an entry is completed although the step timer scheduled at its creation
\* is still pending: a callback of another run marked it
StaleMark ==
  \E k \in 1..Len(logs) : \E t \in timers :
    /\ t.kind = "step" /\ t.run = logs[k].run /\ t.id = logs[k].id
    /\ logs[k].status = "completed"

\* C6 - Re-activation hazard: an activation is possible in every state,
\* whatever the earlier runs are doing; it clears the store, sets the index
\* to 0 and starts a new timer chain, and it cancels nothing: every pending
\* timer and every closure index of the earlier runs is kept, so each run
\* that has not invoked onComplete still has its pending timer. (The
\* reachable hazard itself is the witness.)
C6_ReactivationHazard ==
  /\ [](Cardinality(Runs) < MaxActivations => ENABLED Activate)
  /\ [](\A r \in Runs : Cardinality(TimersOf(r)) = (IF CallsOf(r) = {} THEN 1 ELSE 0))
  /\ [][ Activated =>
          /\ logs' = << NewEntry(0, Latest') >>
          /\ currentStep' = 0
          /\ stepIndex'[Latest'] = 0
          /\ timers \subseteq timers'
          /\ { t \in timers' : t.run = Latest' } = timers' \ timers
          /\ \A r \in Runs : stepIndex'[r] = stepIndex[r] ]_vars

\* C6 witness: after a re-activation during run 1, callbacks of the
\* abandoned run have marked an entry of the new run and appended an entry
\* of their own to the store that was reset for the new run
C6_Witness ==
  /\ 1 \in abandoned
  /\ StaleAppend
  /\ StaleMark

\* C7 - Race scenario: after an activation that found an earlier run still
\* in progress, once every scheduled action has fired the store holds
\* exactly one run's worth of entries: N entries, all of the same run.
C7_RaceScenario ==
  (abandoned # {} /\ timers = {}) =>
    /\ Len(logs) = N
    /\ \A k \in 1..Len(logs) : logs[k].run = logs[1].run

\* the kinds of the timer pending after a step, given the kind of the timer
\* pending before it (the same timer, a tick later, or the one it schedules)
NextKinds(kind) ==
  IF kind = "step" THEN {"step", "settle"}
  ELSE IF kind = "settle" THEN {"settle", "step", "complete"}
  ELSE {"complete"}

C9_ResetOnActivation ==
  [][ Activated =>
        /\ Len(ResetLogs(logs)) = 0
        /\ ResetLogs(ResetLogs(logs)) = ResetLogs(logs)
        /\ logs' = AppendLog(<< >>, NewEntry(0, Latest'))
        /\ \A k \in 1..Len(logs') : logs'[k].run \notin Runs
        /\ currentStep' = 0
        /\ stepIndex'[Latest'] = 0 ]_vars

\* C9 witness: the state right after an activation that followed a full
\* completion of the run before it
C9_Witness ==
  /\ Latest = 2
  /\ CallsOf(1) # {}
  /\ abandoned = {}
  /\ trace = << >>
  /\ logs = << NewEntry(0, 2) >>
  /\ currentStep = 0
  /\ \E t \in timers : t.run = 2 /\ t.kind = "step" /\ t.left = deploymentSteps[1].duration

\* the number of states a complete run goes through: from each of the
\* N steps a step-finished and a settle firing, the callback, and a tick
\* for each unit of delay
RunLength ==
  LET RECURSIVE Sum(_)
      Sum(k) == IF k = 0 THEN 0 ELSE Sum(k - 1) + deploymentSteps[k].duration \div TickMs
  IN  1 + 2 * N + 1 + Sum(N) + N * (SettleDelay \div TickMs) + CompletionDelay \div TickMs

\* C10 - Prompt non-interference: two runs of the engine started with
\* whatever prompts go through the same sequence of observable engine
\* states (store, displayed index, closure index, timer delays, onComplete
\* payloads): as far as both have got, their traces are equal.
C10_PromptNonInterference ==
  \A r1, r2 \in DOMAIN trace :
    \A k \in 1..Len(trace[r1].states) :
      k <= Len(trace[r2].states) => trace[r1].states[k] = trace[r2].states[k]

\* C10 witness: a run with the empty prompt and a run with a non-empty
\* prompt have both run to the end, through equally many states
C10_Witness ==
  /\ DOMAIN trace = {1, 2}
  /\ trace[1].prompt = << >>
  /\ trace[2].prompt = << "a" >>
  /\ Len(trace[1].states) = RunLength
  /\ Len(trace[2].states) = RunLength
  /\ Len(calls) = 2

\* the step-finished callback of run r fires in this step
StepFired(r) == r \in Runs /\ stepIndex'[r] = stepIndex[r] + 1

\* the settle callback of run r fires in this step
SettleFired(r) ==
  \E t \in timers : t.run = r /\ t.kind = "settle" /\ t.left = 0 /\ t \notin timers'

\* the pending timers of run r after this step
TimersAfter(r) == { t \in timers' : t.run = r }

\* C11 as stated - Step-finished transition: the firing of the delayed
\* action of step i marks the entry of step i completed; for i + 1 < N the
\* settle pause follows, and for the last step no settle pause is taken: the
\* completion callback is scheduled at once, one fixed delay ahead.
C11_NoSettleAfterLastStep ==
  [][ \A r \in Runs : StepFired(r) =>
        ( /\ HasCompleted(logs', r, stepIndex[r])
          /\ TimersAfter(r) =
               IF stepIndex[r] + 1 < N
                 THEN {Timer(r, "settle", SettleDelay, "")}
                 ELSE {Timer(r, "complete", CompletionDelay, "")} ) ]_vars

\* C11 - Step-finished transition: the firing of the delayed action of
\* step i marks the entry of step i completed and schedules the settle pause,
\* for the last step as for every other; when the settle pause ends the run
\* begins step i + 1 if there is one (a running entry and its delayed action)
\* and otherwise leaves the store alone and schedules the completion
\* callback one fixed delay ahead, so that the callback follows the last
\* step's completion by the settle pause plus that delay.
C11_StepFinished ==
  /\ [][ \A r \in Runs : StepFired(r) =>
           ( /\ HasCompleted(logs', r, stepIndex[r])
             /\ TimersAfter(r) = {Timer(r, "settle", SettleDelay, "")} ) ]_vars
  /\ [][ \A r \in Runs : SettleFired(r) =>
           IF stepIndex[r] < N
             THEN ( /\ logs' = Append(logs, NewEntry(stepIndex[r], r))
                    /\ TimersAfter(r) =
                         {Timer(r, "step", catalog[stepIndex[r] + 1].duration, StepId(stepIndex[r]))} )
             ELSE ( /\ logs' = logs
                    /\ TimersAfter(r) = {Timer(r, "complete", CompletionDelay, "")} ) ]_vars

\* C11 witness: the last step has just been marked completed and the settle
\* pause of the run is pending in full
C11_Witness ==
  \E r \in Runs :
    /\ stepIndex[r] = N
    /\ HasCompleted(logs, r, N - 1)
    /\ TimersOf(r) = {Timer(r, "settle", SettleDelay, "")}
    /\ CallsOf(r) = {}

\* C12 - Callback after the last settle: the completion callback of a run
\* is scheduled only by the settle callback that follows the last step's
\* completion, once that settle delay has run out; while a settle timer of
\* the run is pending the callback has not run, and onComplete is invoked by
\* a due completion timer of a run that has no settle timer left.
C12_CallbackAfterSettle ==
  /\ [][ \A r \in Runs :
           ( (\E t \in TimersAfter(r) : t.kind = "complete")
             /\ ~(\E t \in TimersOf(r) : t.kind = "complete") )
           => ( SettleFired(r) /\ stepIndex[r] = N /\ HasCompleted(logs, r, N - 1) ) ]_vars
  /\ [][ Invoked =>
           \E t \in timers :
             /\ t.kind = "complete" /\ t.left = 0 /\ t \notin timers'
             /\ calls' = Append(calls, [run |-> t.run, payload |-> CompletionPayload])
             /\ ~(\E u \in TimersOf(t.run) : u.kind = "settle") ]_vars
  /\ [](\A r \in Runs :
          (\E t \in TimersOf(r) : t.kind = "settle") => CallsOf(r) = {})

\* C12 witness: the settle delay after the last step has run out and the
\* completion callback it scheduled is pending
C12_Witness ==
  \E r \in Runs :
    /\ stepIndex[r] = N
    /\ TimersOf(r) = {Timer(r, "complete", CompletionDelay, "")}
    /\ CallsOf(r) = {}
    /\ Len(logs) = N /\ AllCompleted(logs)

\* run r has reached its end: its completion callback is pending or has run
Terminal(r) == (\E t \in TimersOf(r) : t.kind = "complete") \/ CallsOf(r) # {}

engineVars == << logs, currentStep, stepIndex, timers, calls >>

\* C14 - Completed is terminal: a run that has invoked onComplete has no
\* timer left and its index stays at N for good; once the engine is at
\* rest after a call (no timer pending) the store, the indexes, the timers
\* and the calls change only in a step that is a fresh activation.
C14_CompletedTerminal ==
  /\ [](\A r \in Runs : CallsOf(r) # {} => (TimersOf(r) = {} /\ stepIndex[r] = N))
  /\ [][ \A r \in Runs : CallsOf(r) # {} =>
           ( /\ stepIndex'[r] = stepIndex[r]
             /\ TimersAfter(r) = {}
             /\ { k \in 1..Len(calls') : calls'[k].run = r } = CallsOf(r) ) ]_vars
  /\ [][ (calls # << >> /\ timers = {}) =>
           (Activated \/ UNCHANGED engineVars) ]_vars

\* C14 witness: the run has invoked onComplete and the parent has since
\* turned isActive off; the engine is as the callback left it
C14_Witness ==
  /\ Len(calls) = 1
  /\ timers = {}
  /\ ~isActive
  /\ stepIndex[1] = N
  /\ Len(logs) = N /\ AllCompleted(logs) /\ InCatalogOrder(logs)
  /\ currentStep = N - 1

\* C15 - Screen flow: appState starts at canvas and changes only from canvas
\* to deploying, in a step that activates a run; from deploying to
\* completed, in a step that invokes onComplete and stores its result; and
\* from completed to canvas, in a step that clears the result. No other
\* change of appState happens, and no activation or callback leaves the
\* screen where it is.
C15_ScreenFlow ==
  /\ appState = "canvas"
  /\ [](appState \in {"canvas", "deploying", "completed"})
  /\ [][ appState' # appState =>
           \/ (appState = "canvas" /\ appState' = "deploying" /\ Activated /\ ~Invoked)
           \/ (appState = "deploying" /\ appState' = "completed" /\ Invoked
                 /\ deploymentResult' = Some(calls'[Len(calls')].payload))
           \/ (appState = "completed" /\ appState' = "canvas" /\ ~Invoked /\ ~Activated
                 /\ deploymentResult' = null) ]_vars
  /\ [][ (Activated \/ Invoked) => appState' # appState ]_vars

\* C15 witness: the screen is back on the canvas after a whole round
\* canvas, deploying, completed, canvas
C15_Witness ==
  /\ appState = "canvas"
  /\ Len(calls) = 1
  /\ deploymentResult = null
  /\ Cardinality(Runs) = 1

\* the record x has the five fields of a deployment result with the values
\* the claim names
IsFixedResult(x) ==
  /\ DOMAIN x = {"liveUrl", "sourceRepo", "configRepo", "services", "status"}
  /\ x.liveUrl = "https://chat.my-app.com"
  /\ x.sourceRepo = "https://github.com/tone-platform/my-chat-app"
  /\ x.configRepo = "https://github.com/tone-platform/my-chat-app-config"
  /\ x.services = <<"Frontend", "Backend", "Redis", "Database">>
  /\ x.status = "deployed"

\* C16 - Completion payload: every onComplete call, whatever the prompt of
\* its run, passes the record with the five fields liveUrl, sourceRepo,
\* configRepo, services and status at their constant values, and the result
\* Index keeps is that record.
C16_FixedPayload ==
  /\ \A k \in 1..Len(calls) : IsFixedResult(calls[k].payload)
  /\ deploymentResult # null => IsFixedResult(deploymentResult[1])

\* C16 witness: a second run, started with a two-character prompt, has
\* handed its result to Index
C16_Witness ==
  /\ Len(calls) = 2
  /\ appState = "completed"
  /\ Len(currentPrompt) = 2
  /\ deploymentResult = Some(calls[2].payload)

\* C17 - LogEntry lifecycle: every entry enters the store with status
\* running, no entry ever has a status other than running or completed, an
\* entry's only change is its status going from running to completed (so
\* never back), and outside an activation the store only grows at its end:
\* no entry is removed or moved.
C17_Lifecycle ==
  /\ [](\A k \in 1..Len(logs) : logs[k].status \in {"running", "completed"})
  /\ [][ IF Activated
           THEN \A k \in 1..Len(logs') : logs'[k].status = "running"
           ELSE /\ Len(logs') >= Len(logs)
                /\ \A k \in 1..Len(logs) :
                     \/ logs'[k] = logs[k]
                     \/ ( /\ logs[k].status = "running"
                          /\ logs'[k] = [logs[k] EXCEPT !.status = "completed"] )
                /\ \A k \in (Len(logs) + 1)..Len(logs') : logs'[k].status = "running" ]_vars

\* C17 witness: an entry that went from running to completed, followed by
\* an entry still running whose delay is partly spent
C17_Witness ==
  /\ Len(logs) = 2
  /\ logs[1].status = "completed"
  /\ logs[2].status = "running"
  /\ \E t \in timers :
       t.kind = "step" /\ t.id = logs[2].id /\ t.run = logs[2].run /\ t.left = TickMs

\* the entry e carries the id of step i and the message and details of the
\* catalog's step i
IsEntryOfStep(e, i) ==
  /\ e.id = StepId(i)
  /\ e.message = catalog[i + 1].message
  /\ e.details = catalog[i + 1].details

C19_CatalogOrder ==
  /\ [](/\ Len(logs) <= N
        /\ \A k \in 1..Len(logs) : IsEntryOfStep(logs[k], k - 1))
  /\ [](Len(calls) <= 1)
  /\ [][ Invoked => (Len(logs) = N /\ AllCompleted(logs)) ]_vars
  /\ (Runs # {}) ~> ( /\ Len(logs) = N
                      /\ AllCompleted(logs)
                      /\ \A k \in 1..N : IsEntryOfStep(logs[k], k - 1)
                      /\ Len(calls) = 1
                      /\ timers = {} )

\* C19 witness: a run over the catalog with the durations 100, 50, 10 has
\* come to its end
C19_Witness ==
  /\ N = 3
  /\ << catalog[1].duration, catalog[2].duration, catalog[3].duration >> = << 100, 50, 10 >>
  /\ Len(logs) = 3 /\ AllCompleted(logs)
  /\ Len(calls) = 1
  /\ timers = {}

\* the store l holds an entry with the id
HasId(l, id) == \E k \in 1..Len(l) : l[k].id = id

\* C20 - Lenient mark: marking an id the store does not hold gives the
\* store back as it is; and when the step-finished callback of a run fires
\* for an entry that is no longer in the store (the store was reset since),
\* the store and the displayed index stay as they are, the run's index
\* moves on and its settle pause is scheduled as after any other step.
C20_LenientMark ==
  /\ [](\A i \in 0..(N - 1) :
          ~HasId(logs, StepId(i)) => MarkCompleted(logs, StepId(i)) = logs)
  /\ [][ \A t \in timers :
           ( /\ t.kind = "step" /\ t.left = 0 /\ t \notin timers'
             /\ ~HasId(logs, t.id) )
           => ( /\ logs' = logs
                /\ currentStep' = currentStep
                /\ stepIndex'[t.run] = stepIndex[t.run] + 1
                /\ TimersAfter(t.run) = {Timer(t.run, "settle", SettleDelay, "")}
                /\ calls' = calls ) ]_vars

\* C20 witness: a superseded run has just finished a step whose entry the
\* reset of the newer run removed: its settle pause is pending in full, the
\* store does not hold the id it marked, and the newer run was activated
\* before that (part of its first step's delay is spent)
C20_Witness ==
  \E r \in Runs :
    /\ r < Latest
    /\ TimersOf(r) = {Timer(r, "settle", SettleDelay, "")}
    /\ ~HasId(logs, StepId(stepIndex[r] - 1))
    /\ stepIndex[Latest] = 0
    /\ \E t \in TimersOf(Latest) : t.kind = "step" /\ t.left < catalog[1].duration

\* the view is turned off or torn down in this step
TurnedOff == (isActive /\ ~isActive') \/ (mounted /\ ~mounted')

\* C21 - No cancellation: a step in which isActive becomes false or the
\* view is torn down leaves every pending timer and the run's index as they
\* are; a timer leaves the set only by firing when its delay is spent, and
\* the firing of a step or settle timer schedules the run's next timer; the
\* index only moves up by one; and a run that has started always ends with
\* its index at N and one onComplete call, whatever happened to the view.
C21_NoCancellation ==
  /\ [][ TurnedOff => (timers' = timers /\ stepIndex' = stepIndex /\ calls' = calls) ]_vars
  /\ [][ \A t \in timers : t \notin timers' =>
           \/ (\A u \in timers : u.left > 0)
           \/ ( /\ t.left = 0
                /\ IF t.kind = "complete" THEN Invoked /\ TimersAfter(t.run) = {}
                   ELSE \E u \in TimersAfter(t.run) : u.kind \in NextKinds(t.kind) /\ u # t ) ]_vars
  /\ [][ \A r \in Runs : stepIndex'[r] \in {stepIndex[r], stepIndex[r] + 1} ]_vars
  /\ (Runs # {}) ~> (Len(calls) = 1 /\ stepIndex[1] = N /\ timers = {})

\* C21 witness: the view was torn down while step 2 was running, so the
\* store stopped there, and the run has gone on to invoke onComplete
C21_Witness ==
  /\ ~mounted
  /\ Len(logs) = 3 /\ logs[3].status = "running"
  /\ Len(calls) = 1
  /\ stepIndex[1] = N
  /\ timers = {}

RECURSIVE SumDurations(_)
\* the sum of the durations of the first k catalog steps
SumDurations(k) == IF k = 0 THEN 0 ELSE SumDurations(k - 1) + catalog[k].duration

\* the delay a timer of the kind is to be scheduled with after run r has
\* reached index i
NominalDelay(kind, i) ==
  IF kind = "step" THEN catalog[i + 1].duration
  ELSE IF kind = "settle" THEN 500
  ELSE 1000

\* C22 - Simulated timing: every timer is scheduled with its nominal delay
\* (the step's duration for a step-finished timer, 500 for a settle timer,
\* 1000 for the completion timer); when onComplete has been invoked, 2N + 1
\* timers have fired, the delays they were scheduled with add up to the sum
\* of the durations plus 500 N plus 1000, and that much time has passed;
\* for the shipped catalog of 8 steps this is 17 firings and 25500 ms.
C22_Timing ==
  /\ [][ \A u \in timers' :
           (\A t \in timers : t.left = 0) =>
             u.left = NominalDelay(u.kind, stepIndex'[u.run]) ]_vars
  /\ [](Len(calls) = 1 =>
          /\ trace.fired = 2 * N + 1
          /\ trace.scheduled = SumDurations(N) + 500 * N + 1000
          /\ trace.elapsed = trace.scheduled)
  /\ []((Len(calls) = 1 /\ catalog = deploymentSteps) =>
          (trace.fired = 17 /\ trace.scheduled = 25500 /\ trace.elapsed = 25500))
  /\ [][ Invoked => trace'.fired = 2 * N + 1 ]_vars

\* C22 witness: the run over the shipped catalog has invoked onComplete
\* after 17 firings
C22_Witness ==
  /\ catalog = deploymentSteps
  /\ Len(calls) = 1
  /\ trace.fired = 17
  /\ trace.elapsed = 25500

\* the prompt p has a character that is not whitespace
NonBlank(p) == \E k \in 1..Len(p) : p[k] # " "

\* C23 - Deploy gate: the gate of MagicCanvas.handleDeploy lets a prompt
\* through exactly when it has a character that is not whitespace and
\* isDeploying is false; a run is started only through the gate and is
\* given the prompt as typed; while the gate is closed the canvas stays, no
\* run starts and Index keeps its prompt; so the prompt of every run shown
\* on the deploying or the completed screen is not blank.
C23_DeployGate ==
  /\ [](\A p \in Prompts : \A d \in BOOLEAN :
          CanDeploy(p, d) <=> (NonBlank(p) /\ ~d))
  /\ [][ Activated => (appState = "canvas" /\ CanDeploy(prompt, FALSE)
                         /\ currentPrompt' = prompt) ]_vars
  /\ [][ (appState = "canvas" /\ ~CanDeploy(prompt, FALSE)) =>
           ( /\ ~Activated
             /\ appState' = "canvas"
             /\ currentPrompt' = currentPrompt
             /\ UNCHANGED engineVars ) ]_vars
  /\ [](appState \in {"deploying", "completed"} => NonBlank(currentPrompt))

\* C23 witness: a run was started with a prompt that begins with whitespace
\* and was handed over as typed
C23_Witness ==
  /\ appState = "deploying"
  /\ currentPrompt = << " ", "a" >>
  /\ Len(logs) = 1

\* C24 - One chain in the composed application: a run is started only on
\* the canvas screen and the engine is mounted exactly on the deploying
\* screen, which is left only in a step that invokes onComplete; so no run
\* is started while a timer is pending, the pending timers are at any time
\* those of one run, the newest, no run is ever superseded, and no timer
\* is pending once the engine is unmounted.
C24_OneChain ==
  /\ [](mounted <=> appState = "deploying")
  /\ [][ Activated => (appState = "canvas" /\ timers = {} /\ ~mounted) ]_vars
  /\ [][ (appState = "deploying" /\ appState' # "deploying") =>
           (Invoked /\ appState' = "completed" /\ timers' = {}) ]_vars
  /\ [](Cardinality({ t.run : t \in timers }) <= 1)
  /\ [](\A t \in timers : t.run = Latest)
  /\ [](abandoned = {})
  /\ [](~mounted => timers = {})

\* C24 witness: a second run is under way after the first one was
\* completed and its screen left; only the second run has a timer
C24_Witness ==
  /\ Cardinality(Runs) = 2
  /\ appState = "deploying"
  /\ CallsOf(1) # {}
  /\ TimersOf(1) = {}
  /\ \E t \in TimersOf(2) : t.kind = "settle"
  /\ Len(logs) = 2

\* C25 - One callback per activation: under re-activation every run keeps
\* its own chain: a run that has not invoked onComplete has exactly one
\* timer pending, a run that has invoked it did so once, at index N, and
\* has no timer left; so when no timer is pending, onComplete has been
\* invoked once for each activation, a superseded run included; and a
\* callback is invoked by the chain of its own run whatever the store of the
\* newest run holds.
C25_CallbackPerActivation ==
  /\ [](\A r \in Runs :
          IF CallsOf(r) = {}
            THEN Cardinality(TimersOf(r)) = 1
            ELSE /\ Cardinality(CallsOf(r)) = 1
                 /\ TimersOf(r) = {}
                 /\ stepIndex[r] = N)
  /\ [](timers = {} => Len(calls) = Cardinality(Runs))
  /\ [][ \A t \in timers :
           (t.kind = "complete" /\ t.left = 0 /\ t \notin timers') =>
             calls' = Append(calls, [run |-> t.run, payload |-> CompletionPayload]) ]_vars

\* C25 witness: the superseded run has invoked onComplete while the last
\* entry of the newest run is in the store and still running
C25_Witness ==
  /\ Cardinality(Runs) = 2
  /\ CallsOf(1) # {}
  /\ CallsOf(2) = {}
  /\ \E k \in 1..Len(logs) :
       logs[k].run = 2 /\ logs[k].id = StepId(N - 1) /\ logs[k].status = "running"

\* the pending step-finished timers scheduled for the entry e
TimersFor(e) == { t \in timers : t.kind = "step" /\ t.run = e.run /\ t.id = e.id }

Screens ==
  (IF appState = "canvas" THEN {"MagicCanvas"} ELSE {})
    \cup (IF appState = "deploying" THEN {"DeploymentLogs"} ELSE {})
    \cup (IF appState = "completed" /\ deploymentResult # null THEN {"DeploymentResults"} ELSE {})

\* C27 - A result on the completed screen: whenever appState is completed
\* deploymentResult is not null and is the payload the last onComplete call
\* passed; so Index renders exactly one of its three screens in every
\* state, never none.
C27_ResultOnCompleted ==
  /\ appState = "completed" =>
       ( /\ deploymentResult # null
         /\ calls # << >>
         /\ deploymentResult = Some(calls[Len(calls)].payload) )
  /\ Cardinality(Screens) = 1

\* C27 witness: the completed screen shows the result of the run
C27_Witness ==
  /\ appState = "completed"
  /\ Screens = {"DeploymentResults"}
  /\ deploymentResult = Some(CompletionPayload)
  /\ Len(calls) = 1

\* C28 - A clean canvas: whenever appState is canvas, currentPrompt is the
\* empty string and deploymentResult is null; the step back from completed
\* to canvas clears the prompt and the result together with the screen (and
\* the form comes up empty); so the next run starts from the prompt typed on
\* that canvas, with no result set.
C28_CleanCanvas ==
  /\ [](appState = "canvas" => (currentPrompt = << >> /\ deploymentResult = null))
  /\ [][ (appState = "completed" /\ appState' # "completed") =>
           ( /\ appState' = "canvas"
             /\ currentPrompt' = << >>
             /\ deploymentResult' = null
             /\ prompt' = << >> ) ]_vars
  /\ [][ Activated =>
           ( /\ currentPrompt = << >>
             /\ currentPrompt' = prompt
             /\ deploymentResult' = null ) ]_vars

\* C28 witness: back on the canvas after a run, with the prompt of the
\* next run being typed and nothing left of the last one
C28_Witness ==
  /\ appState = "canvas"
  /\ Len(calls) = 1
  /\ prompt = << "a" >>
  /\ currentPrompt = << >>
  /\ deploymentResult = null

\* what DeploymentLogs renders: nothing unless it is mounted with isActive
\* true, else the entries and the progress badge
View ==
  IF mounted /\ isActive
    THEN Some([ logs  |-> [ k \in 1..Len(logs) |-> Shown(logs[k]) ],
                badge |-> << currentStep + 1, N >> ])
    ELSE null

\* C29 - Inactive engine is inert: the effect run that finds isActive
\* false (the step in which isActive is turned off) leaves the store, both
\* indexes, the timers and the calls as they are; an engine that has never
\* been activated has an empty store, index 0, no timer and no call; a run
\* is started and the store is reset only by an effect run that finds
\* isActive true; and while isActive is false the view renders nothing.
C29_InactiveInert ==
  /\ [][ (isActive /\ ~isActive') => UNCHANGED engineVars ]_vars
  /\ [](Runs = {} => ( /\ ~isActive
                       /\ logs = << >> /\ currentStep = 0
                       /\ timers = {} /\ calls = << >> ))
  /\ [](~isActive => View = null)
  /\ [][ (Activated \/ (Len(logs) > 0 /\ Len(logs') < Len(logs))) => isActive' ]_vars

\* C29 witness: isActive was turned off in the middle of a run; the store
\* and the pending timer are as the run left them and nothing is rendered
C29_Witness ==
  /\ ~isActive
  /\ mounted
  /\ View = null
  /\ Len(logs) = 2 /\ logs[2].status = "running"
  /\ currentStep = 1
  /\ \E t \in timers : t.kind = "step" /\ t.left = catalog[2].duration
  /\ calls = << >>

\* the step-finished timer t fires in this step
StepTimerFired(t) == t.kind = "step" /\ t.left = 0 /\ t \notin timers'

\* the store after this step is the store before it with the entries of
\* the id marked completed and nothing else changed
MarkFrame(id) ==
  /\ Len(logs') = Len(logs)
  /\ \A k \in 1..Len(logs) :
       logs'[k] = IF logs[k].id = id THEN [logs[k] EXCEPT !.status = "completed"]
                                     ELSE logs[k]

\* the store after this step is the store before it with one entry added
\* at the end
AppendFrame ==
  /\ Len(logs') = Len(logs) + 1
  /\ \A k \in 1..Len(logs) : logs'[k] = logs[k]

\* C30 as stated - Frame of the store: a mark changes the status of the
\* matching entries only, an append adds one entry at the end, and the
\* firing of a settle timer or of the completion timer leaves the store as
\* it is.
C30_SettleLeavesStore ==
  [][ /\ \A t \in timers : StepTimerFired(t) => MarkFrame(t.id)
      /\ (Len(logs') > Len(logs) => AppendFrame)
      /\ \A r \in Runs : SettleFired(r) => logs' = logs
      /\ (Invoked => logs' = logs) ]_vars

\* C30 - Frame of the store: the firing of a step-finished timer changes
\* the status of the entries with its id to completed and nothing else, not
\* the length, the order, another entry or another field; the firing of a
\* settle timer, whose callback is processStep, adds exactly the entry of
\* the run's next step at the end and leaves the entries before it as they
\* are, or leaves the store as it is when no step remains; the completion
\* timer leaves the store as it is; and outside an activation the store
\* changes in no other step.
C30_Frame ==
  /\ [][ \A t \in timers : StepTimerFired(t) => MarkFrame(t.id) ]_vars
  /\ [][ \A r \in Runs : SettleFired(r) =>
           IF stepIndex[r] < N
             THEN AppendFrame /\ logs'[Len(logs')] = NewEntry(stepIndex[r], r)
             ELSE logs' = logs ]_vars
  /\ [][ Invoked => logs' = logs ]_vars
  /\ [][ logs' # logs =>
           \/ Activated
           \/ \E t \in timers : StepTimerFired(t)
           \/ \E r \in Runs : SettleFired(r) ]_vars

\* C30 witness: a mark has completed two entries of the same id, one of
\* each run, and left the running entry behind them alone
C30_Witness ==
  \E j, k \in 1..Len(logs) :
    /\ j < k /\ k < Len(logs)
    /\ logs[j].id = logs[k].id
    /\ logs[j].status = "completed" /\ logs[k].status = "completed"
    /\ logs[Len(logs)].status = "running"

C32_ControllerFrame ==
  /\ [][ currentPrompt' # currentPrompt =>
           \/ (appState = "canvas" /\ Activated /\ currentPrompt' = prompt)
           \/ (appState = "completed" /\ appState' = "canvas" /\ currentPrompt' = << >>) ]_vars
  /\ [](appState \in {"deploying", "completed"} => currentPrompt = prompt)
  /\ [][ Invoked =>
           ( /\ currentPrompt' = currentPrompt
             /\ prompt' = prompt
             /\ UNCHANGED << logs, currentStep, stepIndex >>
             /\ appState' = "completed"
             /\ deploymentResult' = Some(calls'[Len(calls')].payload) ) ]_vars
  /\ [][ deploymentResult' # deploymentResult =>
           (Invoked \/ (appState = "completed" /\ appState' = "canvas")) ]_vars

\* C32 witness: the run submitted with a prompt that ends in whitespace is
\* completed; the prompt is still as typed and the result is the payload
C32_Witness ==
  /\ appState = "completed"
  /\ currentPrompt = << "a", " " >>
  /\ deploymentResult = Some(calls[Len(calls)].payload)
  /\ Len(logs) = N

====
